---- MODULE Spec2Model ----
(***************************************************************************)
(* Formation lifecycle and spawning engine of ocean-solaris                *)
(* (src/js/simulacra.js, class SolarisFormations).                         *)
(*                                                                         *)
(* Number representation.  Time (deltaTime, age, lifespan, spawnTimer) is  *)
(* counted in whole seconds.  emergenceProgress and the uniforms that      *)
(* carry it are fixed-point numbers with EScale units per 1.0.  The        *)
(* lifecycle tests `lifecycle < 0.4`, `lifecycle > 0.8` and                *)
(* `age > lifespan * 0.8` are decided exactly on the integers              *)
(* (5*age against 2*lifespan and 4*lifespan).  Math.random() is a draw     *)
(* k/n from a finite grid of [0,1).                                        *)
(***************************************************************************)
EXTENDS Integers, Sequences, FiniteSets, TLC

VARIABLES
    formations,   \* this.formations: the live population, in array order
    scene,        \* ids of the formation drawables attached to this.scene
    spawnTimer,   \* this.spawnTimer
    ledger,       \* per drawable ever created: calls received by the scene and by its resources
    lastTick,     \* what the last update() call did, and how it ended
    now,          \* sum of all deltaTime passed to update()
    teardown,     \* how a call of formations.disposeAll() ended, "none" before any
    selTypes,     \* selectWeightedFormation: argument `types` (weights, in catalog order)
    selRandom,    \* selectWeightedFormation: the Math.random() draw, as <<k, n>> for k/n
    selResult,    \* selectWeightedFormation: index returned, or an error tag
    curveAge,     \* lifecycle curve: age of the probed formation
    curveLifespan,\* lifecycle curve: its lifespan
    curveValue,   \* lifecycle curve: emergenceProgress computed from them
    poseIn,       \* placement: maxHeight, emergenceProgress and phase of the probed formation
    poseOut,      \* placement: formation.position and `normal` after lines 516-537
    plasmaFountains,       \* main.js: the live plasma fountains, in array order
    timeSinceLastEruption, \* main.js: deltaTime summed since the last eruption
    plasmaLog,    \* per fountain ever created: its draw, its birth time and the calls it caused
    plasmaClock,  \* sum of all deltaTime passed to updatePlasmaEruptions()
    fog           \* the SolarisFog object: config, time, the THREE fog and the last setter called

vars == <<formations, scene, spawnTimer, ledger, lastTick, now, teardown,
          selTypes, selRandom, selResult, curveAge, curveLifespan, curveValue,
          poseIn, poseOut,
          plasmaFountains, timeSinceLastEruption, plasmaLog, plasmaClock, fog>>

engineVars == <<formations, scene, spawnTimer, ledger, lastTick, now, teardown>>
selVars    == <<selTypes, selRandom, selResult>>
curveVars  == <<curveAge, curveLifespan, curveValue>>
poseVars   == <<poseIn, poseOut>>
plasmaVars == <<plasmaFountains, timeSinceLastEruption, plasmaLog, plasmaClock>>
mainVars   == <<plasmaVars, fog>>

----------------------------------------------------------------------------
(* Program constants *)

maxFormations == 5
spawnInterval == 8
oceanRadius   == 5

(* Bounds of the model *)

MaxDt           == 2     \* deltaTime ranges over 0..MaxDt seconds
MaxTime         == 24    \* update() is called while the summed deltaTime stays <= MaxTime
MaxLifespanDraw == 1     \* lifespan draws are k/6 for k in 0..MaxLifespanDraw
MaxTypeDraw     == 1     \* archetype draws are k/(MaxTypeDraw+1) for k in 0..MaxTypeDraw
EScale          == 1000  \* fixed-point units per 1.0 of emergenceProgress
MaxCatalogLen   == 3     \* catalogs probed by the selector have at most this many entries
MaxWeight       == 2     \* with weights in 0..MaxWeight
MaxSelectDraw   == 17    \* the selector is probed with the draws k/(MaxSelectDraw+1)
MaxCurveAge     == 180   \* ages probed on the lifecycle curve, in quarter seconds
MaxHeightDraw   == 3     \* maxHeight draws are k/(MaxHeightDraw+1) for k in 0..MaxHeightDraw
MaxPoseStep     == 10    \* emergenceProgress is probed at k/MaxPoseStep for k in 0..MaxPoseStep
MaxPhaseStep    == 11    \* phase is probed at k/(MaxPhaseStep+1) of 4*pi for k in 0..MaxPhaseStep
MaxOscDraw      == 3     \* archetype phase draws are k/(MaxOscDraw+1) for k in 0..MaxOscDraw
HeldDraw        == 0     \* the engine holds the maxHeight and archetype phase draws at this k

Min(a, b) == IF a < b THEN a ELSE b

\* values of the placement variables while no placement is probed
NoPoseIn  == [maxHeight |-> 0, emergenceProgress |-> 0, phase |-> 0]
NoPoseOut == [called |-> FALSE, position |-> 0, normal |-> 0]

----------------------------------------------------------------------------
(* The catalog: createInitialFormations and spawnNewFormation build the    *)
(* same five entries.                                                      *)

FormationTypes ==
    << [fn |-> "symmetriad",  weight |-> 3],
       [fn |-> "asymmetriad", weight |-> 2],
       [fn |-> "mimoid",      weight |-> 2],
       [fn |-> "vertebrid",   weight |-> 1],
       [fn |-> "extensor",    weight |-> 1] >>

(* Number of meshes each constructor adds to its group.  Every mesh has a  *)
(* geometry of its own; all meshes of one group share the single material  *)
(* returned by createFormationMaterial.                                    *)
MeshCount(type) ==
    CASE type = "symmetriad"  -> 1 + (6 + 8 + 10) + 8 + 1
      [] type = "asymmetriad" -> 1 + 7 * (4 + 1) + 5
      [] type = "mimoid"      -> 6 + 12 * 3 + 4
      [] type = "vertebrid"   -> 10 + 5 * 2
      [] type = "extensor"    -> 1 + 8 * 6

----------------------------------------------------------------------------
(* selectWeightedFormation(types), with Math.random() = k/n.               *)
(* Quantities are scaled by n: random = k * totalWeight, and each          *)
(* subtraction takes weight * n.  The outcome is "returned" with the index  *)
(* of the entry whose fn() is returned, or "TypeError": types[0].fn() on   *)
(* an empty array throws.                                                  *)

Returned(i) == [outcome |-> "returned", index |-> i]
Thrown(e)   == [outcome |-> e, index |-> 0]

RECURSIVE SumWeights(_)
SumWeights(ws) == IF ws = <<>> THEN 0 ELSE Head(ws) + SumWeights(Tail(ws))

\* mutant of SelectLoop: each weight is compared with the draw, nothing is subtracted
RECURSIVE SelectLoopNoSubtract(_, _, _, _)
SelectLoopNoSubtract(ws, i, random, n) ==
    IF i > Len(ws)
    THEN IF Len(ws) = 0 THEN Thrown("TypeError") ELSE Returned(1)
    ELSE IF random - ws[i] * n <= 0 THEN Returned(i) ELSE SelectLoopNoSubtract(ws, i + 1, random, n)

\* mutant of SelectLoop: no `return types[0].fn()` after the loop
RECURSIVE SelectLoopNoFallback(_, _, _, _)
SelectLoopNoFallback(ws, i, random, n) ==
    IF i > Len(ws)
    THEN Thrown("undefined")
    ELSE LET r == random - ws[i] * n
         IN  IF r <= 0 THEN Returned(i) ELSE SelectLoopNoFallback(ws, i + 1, r, n)

RECURSIVE SelectLoop(_, _, _, _)
SelectLoop(ws, i, random, n) ==
    IF i > Len(ws)
    THEN IF Len(ws) = 0 THEN Thrown("TypeError") ELSE Returned(1)
    ELSE LET r == random - ws[i] * n
         IN  IF r <= 0 THEN Returned(i) ELSE SelectLoop(ws, i + 1, r, n)

selectWeightedFormation(ws, k, n) ==
    LET totalWeight == SumWeights(ws)
    IN  SelectLoop(ws, 1, k * totalWeight, n)

Weights(types) == [i \in 1..Len(types) |-> types[i].weight]

----------------------------------------------------------------------------
(* Fixed-point arithmetic for Math.pow.  Values are integers in units of   *)
(* 1/EScale; products and roots round toward zero.                         *)

FixMul(a, b) == (a * b) \div EScale

FixPow5(y) == FixMul(FixMul(FixMul(FixMul(y, y), y), y), y)

\* largest y in lo..hi with y*y <= x*EScale, given lo*lo <= x*EScale
RECURSIVE SqrtSearch(_, _, _)
SqrtSearch(lo, hi, x) ==
    IF lo = hi THEN lo
    ELSE LET mid == (lo + hi + 1) \div 2
         IN  IF mid * mid <= x * EScale
             THEN SqrtSearch(mid, hi, x)
             ELSE SqrtSearch(lo, mid - 1, x)

\* largest y in lo..hi with FixPow5(y) <= x, given FixPow5(lo) <= x
RECURSIVE FifthRootSearch(_, _, _)
FifthRootSearch(lo, hi, x) ==
    IF lo = hi THEN lo
    ELSE LET mid == (lo + hi + 1) \div 2
         IN  IF FixPow5(mid) <= x
             THEN FifthRootSearch(mid, hi, x)
             ELSE FifthRootSearch(lo, mid - 1, x)

FixSqrt(x)      == SqrtSearch(0, EScale, x)            \* x in 0..EScale
FixFifthRoot(x) == FifthRootSearch(0, EScale, x)       \* x in 0..EScale

\* Math.pow(x, 0.7) = x^(1/2) * x^(1/5), for x in 0..EScale; tabulated once
Pow07Table == [x \in 0..EScale |-> FixMul(FixSqrt(x), FixFifthRoot(x))]

Pow07(x) == Pow07Table[x]

\* Math.pow(x, 0.4) for 0 <= x <= 1: the square of the fifth root
Pow04Table == [x \in 0..EScale |-> FixMul(FixFifthRoot(x), FixFifthRoot(x))]

Pow04(x) == Pow04Table[x]

\* Math.sin on [0, pi], x in EScale units per radian: Bhaskara's rational
\* approximation 16 x (pi - x) / (5 pi^2 - 4 x (pi - x)), off by less than 0.002
SinHalfTurn(x) ==
    LET p == x * (3142 - x)
    IN  (16 * p) \div ((5 * 3142 * 3142 - 4 * p) \div EScale)

\* Math.sin for x >= 0
Sin(x) ==
    LET y == x % 6284
    IN  IF y <= 3142 THEN SinHalfTurn(y) ELSE 0 - SinHalfTurn(y - 3142)

\* THREE.Vector3 values, components in EScale units per 1.0; nan marks a
\* vector whose components are NaN
Vector(x, y, z) == [x |-> x, y |-> y, z |-> z, nan |-> FALSE]

NaNVector == [x |-> 0, y |-> 0, z |-> 0, nan |-> TRUE]

\* Vector3.multiplyScalar(s)
MultiplyScalar(v, s) == [v EXCEPT !.x = FixMul(@, s), !.y = FixMul(@, s), !.z = FixMul(@, s)]

\* Vector3.setScalar(s)
SetScalar(s) == Vector(s, s, s)

----------------------------------------------------------------------------
(* update(), lines 502-511: emergenceProgress from age and lifespan.       *)
(*   lifecycle < 0.4 : pow(lifecycle / 0.4, 0.7)                           *)
(*   lifecycle > 0.8 : 1 - ((lifecycle - 0.8) / 0.2)^2                     *)
(*   otherwise       : 1.0                                                 *)
(* (lifecycle - 0.8) / 0.2 = (5*age - 4*lifespan) / lifespan.  The square  *)
(* is rounded down, so the dissolving value is rounded up and the test     *)
(* `emergenceProgress <= 0.01` is decided as on the exact value.           *)

\* mutant of EmergenceProgress: the dissolving branch forgets `1.0 -`
EmergenceProgressNoComplement(age, lifespan) ==
    IF 5 * age < 2 * lifespan
    THEN Pow07((5 * age * EScale) \div (2 * lifespan))
    ELSE IF 5 * age > 4 * lifespan
    THEN LET c == 5 * age - 4 * lifespan
         IN  (c * c * EScale) \div (lifespan * lifespan)
    ELSE EScale

\* mutant of EmergenceProgress: the emerging branch runs until lifecycle 0.5
EmergenceProgressLatePlateau(age, lifespan) ==
    IF 2 * age < lifespan
    THEN Pow07((2 * age * EScale) \div lifespan)
    ELSE IF 5 * age > 4 * lifespan
    THEN LET c == 5 * age - 4 * lifespan
         IN  EScale - (c * c * EScale) \div (lifespan * lifespan)
    ELSE EScale

EmergenceProgress(age, lifespan) ==
    IF 5 * age < 2 * lifespan
    THEN Pow07((5 * age * EScale) \div (2 * lifespan))
    ELSE IF 5 * age > 4 * lifespan
    THEN LET c == 5 * age - 4 * lifespan
         IN  EScale - (c * c * EScale) \div (lifespan * lifespan)
    ELSE EScale

\* mutant of EndOfLife: either condition alone ends the life
EndOfLifeEither(f) ==
    \/ f.emergenceProgress * 100 <= EScale
    \/ 5 * f.age > 4 * f.lifespan

\* mutant of EndOfLife: the age must have passed the whole lifespan
EndOfLifePastLifespan(f) ==
    /\ f.emergenceProgress * 100 <= EScale
    /\ f.age > f.lifespan

\* mutant of EndOfLife: emergenceProgress must have come back to 0 exactly
EndOfLifeExactZero(f) ==
    /\ f.emergenceProgress = 0
    /\ 5 * f.age > 4 * f.lifespan

\* update(), line 546: the end-of-life test
EndOfLife(f) ==
    /\ f.emergenceProgress * 100 <= EScale
    /\ 5 * f.age > 4 * f.lifespan

----------------------------------------------------------------------------
(* Drawables and the calls they receive.                                   *)
(* ledger[id] records, for the drawable with that id:                      *)
(*   adds, removes : scene.add / scene.remove calls                        *)
(*   geometry      : the set of dispose() counts over its geometries       *)
(*   material      : dispose() calls received by its (single) material     *)
(*   born          : the summed deltaTime at which it was created          *)
(*   created       : the formation as addFormationToScene registered it    *)

NewLedgerEntry == [adds |-> 0, removes |-> 0, geometry |-> {0}, material |-> 0, born |-> 0,
                   created |-> <<>>]

\* formation.traverse of lines 548-551 over the meshes n, n-1, .. 1 of a
\* group: every mesh disposes its own geometry and the material it refers to.
\* g[m] counts the dispose() calls of geometry m.
RECURSIVE DisposeMeshes(_, _, _)
DisposeMeshes(n, g, material) ==
    IF n = 0 THEN [geometry |-> g, material |-> material]
    ELSE DisposeMeshes(n - 1, [g EXCEPT ![n] = @ + 1], material + 1)

TraverseDispose(type) ==
    LET n == MeshCount(type)
        d == DisposeMeshes(n, [m \in 1..n |-> 0], 0)
    IN  [geometry |-> {d.geometry[m] : m \in 1..n}, material |-> d.material]

\* formation.traverse of lines 539-544: every one of the n meshes adds
\* deltaTime to the uTime uniform of the material it refers to, and all n
\* refer to the same material: n additions of dt to one uniform.
TraverseTime(n, uTime, dt) == uTime + n * dt

\* Array.prototype.splice(i, 1)
Splice(seq, i) == SubSeq(seq, 1, i - 1) \o SubSeq(seq, i + 1, Len(seq))

----------------------------------------------------------------------------
(* update(), lines 496-553: the body of the loop for index i.              *)
(* st = [formations, scene, ledger, seen, clock]; seen logs every          *)
(* formation the loop has handled in this call, clock is the summed        *)
(* deltaTime including this call's.                                        *)

\* mutant of AdvanceAge: basePosition is the position vector itself, not a
\* clone, and moves with it
AdvanceAgeAliasedBase(f, dt) ==
    LET age == f.age + dt
        e   == EmergenceProgress(age, f.lifespan)
    IN  [f EXCEPT !.age = age,
                  !.emergenceProgress = e,
                  !.uTime = TraverseTime(MeshCount(f.formationType), f.uTime, dt),
                  !.uEmergence = e,
                  !.basePosition = oceanRadius * EScale + FixMul(f.maxHeight, e)]

\* lines 499-511 and 539-544
AdvanceAge(f, dt) ==
    LET age == f.age + dt
        e   == EmergenceProgress(age, f.lifespan)
    IN  [f EXCEPT !.age = age,
                  !.emergenceProgress = e,
                  !.uTime = TraverseTime(MeshCount(f.formationType), f.uTime, dt),
                  !.uEmergence = e]

\* mutant of AdvanceScale: line 514 scales the scale the last call left
AdvanceScaleCumulative(f, dt) ==
    LET e == f.emergenceProgress
    IN  IF e < 0 THEN [f EXCEPT !.scale = NaNVector]
        ELSE [f EXCEPT !.scale = MultiplyScalar(f.scale, Pow04(e))]

\* lines 513-514 and 523-534: formation.scale, and the phase of the archetype.
\* Math.pow of a negative emergenceProgress is NaN, and so is every component
\* computed from it.
AdvanceScale(f, dt) ==
    LET e    == f.emergenceProgress
        type == f.formationType
    IN  IF type = "mimoid"
        THEN LET oscillationPhase == f.typePhase + 3 * dt * (EScale \div 2)
                 oscillation      == FixMul(Sin(oscillationPhase), EScale \div 10)
             IN  [f EXCEPT !.typePhase = oscillationPhase,
                           !.scale = IF e < 0 THEN NaNVector
                                     ELSE MultiplyScalar(MultiplyScalar(f.originalScale, Pow04(e)),
                                                         EScale + FixMul(oscillation, e))]
        ELSE IF type = "vertebrid"
        THEN [f EXCEPT !.typePhase = f.typePhase + EScale * dt,
                       !.scale = IF e < 0 THEN NaNVector
                                 ELSE MultiplyScalar(f.originalScale, Pow04(e))]
        ELSE IF type = "extensor"
        THEN LET extensionPhase == f.typePhase + EScale * dt
                 extension      == FixMul(FixMul(Sin(extensionPhase), EScale \div 2) + EScale \div 2,
                                          EScale \div 5)
             IN  [f EXCEPT !.typePhase = extensionPhase,
                           !.scale = IF e < 0 THEN NaNVector
                                     ELSE [MultiplyScalar(f.originalScale, Pow04(e))
                                             EXCEPT !.y = FixMul(Pow04(e), EScale + FixMul(extension, e))]]
        ELSE [f EXCEPT !.scale = IF e < 0 THEN NaNVector
                                 ELSE MultiplyScalar(f.originalScale, Pow04(e))]

Advance(f, dt) == AdvanceScale(AdvanceAge(f, dt), dt)

\* mutant of RemoveFormation: the splice is forgotten
RemoveFormationNoSplice(st, i, f) ==
    LET d == TraverseDispose(f.formationType)
    IN  [st EXCEPT !.scene = @ \ {f.id},
                   !.ledger[f.id].removes = @ + 1,
                   !.ledger[f.id].geometry = {c + k : c \in @, k \in d.geometry},
                   !.ledger[f.id].material = @ + d.material]

\* lines 547-552
RemoveFormation(st, i, f) ==
    LET d == TraverseDispose(f.formationType)
    IN  [st EXCEPT !.scene = @ \ {f.id},
                   !.ledger[f.id].removes = @ + 1,
                   !.ledger[f.id].geometry = {c + k : c \in @, k \in d.geometry},
                   !.ledger[f.id].material = @ + d.material,
                   !.formations = Splice(@, i)]

\* lines 546-553 for the advanced formation f at index i
Evaluate(st, i, f) ==
    LET eol == EndOfLife(f)
        s1  == [st EXCEPT !.formations[i] = f,
                          !.seen = Append(@, [id |-> f.id, age |-> f.age, lifespan |-> f.lifespan,
                                              emergenceProgress |-> f.emergenceProgress,
                                              uEmergence |-> f.uEmergence,
                                              removed |-> eol])]
    IN  IF eol THEN RemoveFormation(s1, i, f) ELSE s1

UpdateOne(st, i, dt) == Evaluate(st, i, Advance(st.formations[i], dt))

\* mutant of UpdateLoop: the loop runs forward over the array it splices,
\* for (let j = 0; j < this.formations.length; j++)
RECURSIVE ForwardFrom(_, _, _)
ForwardFrom(st, j, dt) ==
    IF j > Len(st.formations) THEN st ELSE ForwardFrom(UpdateOne(st, j, dt), j + 1, dt)

UpdateLoopForward(st, i, dt) == ForwardFrom(st, 1, dt)

\* for (let i = this.formations.length - 1; i >= 0; i--)
RECURSIVE UpdateLoop(_, _, _)
UpdateLoop(st, i, dt) ==
    IF i < 1 THEN st ELSE UpdateLoop(UpdateOne(st, i, dt), i - 1, dt)

----------------------------------------------------------------------------
(* addFormationToScene(formation), lines 465-490.  kLife is the draw of    *)
(* `15 + Math.random() * 30` in sixths.                                    *)

Lifespan(kLife) == 15 + (kLife * 30) \div 6

\* 1.0 + Math.random() * 2.0, line 481
MaxHeight(k) == EScale + (k * 2 * EScale) \div (MaxHeightDraw + 1)

\* Math.random() * Math.PI * 2 of lines 371, 416 and 461; the other two
\* builders draw no phase
TypePhase(type, k) ==
    IF type \in {"mimoid", "vertebrid", "extensor"}
    THEN (Min(k, MaxOscDraw) * 6284) \div (MaxOscDraw + 1)
    ELSE 0

\* The group returned by a builder, as lines 466-487 leave it.  The builders
\* leave the group's scale at (1, 1, 1); line 484 clones it before line 487
\* forces the scale to 0.01.  basePosition is held by its length: lines
\* 469-471 place it at oceanRadius * (sin t cos p, sin t sin p, cos t).
NewFormation(id, type, kLife, kHeight, kOsc) ==
    [id |-> id, formationType |-> type, age |-> 0,
     lifespan |-> Lifespan(kLife), emergenceProgress |-> 0,
     uTime |-> 0, uEmergence |-> 0,
     basePosition |-> oceanRadius * EScale,
     maxHeight |-> MaxHeight(Min(kHeight, MaxHeightDraw)),
     typePhase |-> TypePhase(type, kOsc),
     originalScale |-> SetScalar(EScale),
     scale |-> SetScalar(EScale \div 100)]

\* mutant of addFormationToScene: scene.add is forgotten
addFormationToSceneNoAdd(st, type, kLife) ==
    LET id == Len(st.ledger) + 1
        f  == NewFormation(id, type, kLife, HeldDraw, HeldDraw)
    IN  [st EXCEPT !.formations = Append(@, f),
                   !.ledger = Append(@, [NewLedgerEntry EXCEPT !.born = st.clock,
                                                               !.created = f])]

\* lines 488-489: this.formations.push(formation); this.scene.add(formation)
Register(st, f) ==
    [st EXCEPT !.formations = Append(@, f),
               !.scene = @ \cup {f.id},
               !.ledger = Append(@, [NewLedgerEntry EXCEPT !.adds = 1, !.born = st.clock,
                                                           !.created = f])]

addFormationToScene(st, type, kLife) ==
    Register(st, NewFormation(Len(st.ledger) + 1, type, kLife, HeldDraw, HeldDraw))

\* spawnNewFormation(), lines 562-573 (and the loop body of
\* createInitialFormations): kType/(MaxTypeDraw+1) is the Math.random() of
\* selectWeightedFormation.
spawnNewFormation(st, kType, kLife) ==
    LET sel == selectWeightedFormation(Weights(FormationTypes), kType, MaxTypeDraw + 1)
    IN  addFormationToScene(st, FormationTypes[sel.index].fn, kLife)

TypeDraws     == 0..MaxTypeDraw
LifespanDraws == 0..Min(MaxLifespanDraw, 5)

\* The <<archetype draw, lifespan draw>> pairs the constructor's five
\* formations are drawn from, each formation independently.
InitialDraws == {<<0, 0>>, <<MaxTypeDraw, Min(MaxLifespanDraw, 5)>>}

\* createInitialFormations(), lines 24-27
RECURSIVE CreateInitial(_, _, _)
CreateInitial(st, i, draws) ==
    IF i > maxFormations THEN st
    ELSE CreateInitial(spawnNewFormation(st, draws[i][1], draws[i][2]), i + 1, draws)

\* mutant of SpawnDue: the capacity test is dropped
SpawnDueNoCapacity(timer, population) ==
    timer > spawnInterval

\* mutant of SpawnDue: the capacity test lets a full population through
SpawnDueAtCapacity(timer, population) ==
    timer > spawnInterval /\ population <= maxFormations

\* mutant of SpawnDue: a timer equal to the interval is due
SpawnDueAtInterval(timer, population) ==
    timer >= spawnInterval /\ population < maxFormations

\* mutant of SpawnDue: the last slot is never refilled
SpawnDueOneShort(timer, population) ==
    timer > spawnInterval /\ population < maxFormations - 1

\* mutant of SpawnDue: the timer is due only beyond twice the interval
SpawnDueDoubleInterval(timer, population) ==
    timer > 2 * spawnInterval /\ population < maxFormations

\* update(), line 556: the spawn test
SpawnDue(timer, population) ==
    timer > spawnInterval /\ population < maxFormations

\* mutant of SpawnTimerAfter: the timer is reset whenever it is due
SpawnTimerAfterAlwaysReset(timer, population) ==
    IF timer > spawnInterval THEN 0 ELSE timer

\* mutant of SpawnTimerAfter: a spawn does not reset the timer
SpawnTimerAfterNoReset(timer, population) == timer

\* update(), lines 556-557: the timer is reset only inside the `if`
SpawnTimerAfter(timer, population) ==
    IF SpawnDue(timer, population) THEN 0 ELSE timer

----------------------------------------------------------------------------
(* The engine *)

EmptyState == [formations |-> <<>>, scene |-> {}, ledger |-> <<>>, seen |-> <<>>, clock |-> 0]

NoTick == [called |-> FALSE, dt |-> 0, seen |-> <<>>, timer |-> 0,
           population |-> 0, spawned |-> 0, failed |-> FALSE, outcome |-> "none"]

----------------------------------------------------------------------------
(* The plasma eruption system of src/js/main.js (class PlasmaFountain,     *)
(* createPlasmaEruption, updatePlasmaEruptions).  Its times are counted in *)
(* half seconds: the fountain lifetime 3.0 + random*2.0 s is a draw from   *)
(* 6..9, nextEruptionTime = 4.0 + (random - 0.5)*3.0 s a draw from 5..10.  *)
(* The mesh, its shader animation and its position on the ocean are left   *)
(* out; each fountain owns one geometry and one material.                  *)

eruptionInterval  == 8   \* 4.0 s, in half seconds
eruptionVariation == 6   \* 3.0 s, in half seconds

MaxPlasmaDt       == 3   \* deltaTime ranges over 0..MaxPlasmaDt half seconds
MaxPlasmaTime     == 20  \* updatePlasmaEruptions() is called while the summed deltaTime stays <= MaxPlasmaTime
MaxPlasmaLifeDraw == 3   \* fountain lifetime draws are k/(MaxPlasmaLifeDraw+1) for k in 0..MaxPlasmaLifeDraw
MaxEruptionDraw   == 2   \* threshold draws are k/(MaxEruptionDraw+1) for k in 0..MaxEruptionDraw

\* PlasmaFountain constructor, line 13: 3.0 + Math.random() * 2.0
PlasmaLifetime(k) == 6 + (k * 4) \div (MaxPlasmaLifeDraw + 1)

\* PlasmaFountain constructor: the fountain, and the record of what it causes
PlasmaFountain(id, k) ==
    [id |-> id, lifetime |-> PlasmaLifetime(k), maxLifetime |-> PlasmaLifetime(k)]

NewPlasmaEntry(k, clock) ==
    [lifetime |-> PlasmaLifetime(k), born |-> clock,
     adds |-> 1, removes |-> 0, geometry |-> 0, material |-> 0]

\* PlasmaFountain.update, line 95
PlasmaFountainUpdate(f, dt) == [f EXCEPT !.lifetime = @ - dt]

\* PlasmaFountain.update, line 113: the value returned
StillActiveAtZero(f) == f.lifetime >= 0

StillActive(f) == f.lifetime > 0

\* PlasmaFountain.destroy
Destroy(log, id) ==
    [log EXCEPT ![id].removes = @ + 1, ![id].geometry = @ + 1, ![id].material = @ + 1]

\* createPlasmaEruption
createPlasmaEruption(st, k, clock) ==
    [fountains |-> Append(st.fountains, PlasmaFountain(Len(st.log) + 1, k)),
     log       |-> Append(st.log, NewPlasmaEntry(k, clock))]

\* updatePlasmaEruptions, line 630
NextEruptionTimeNoInterval(k) ==
    ((2 * k - (MaxEruptionDraw + 1)) * eruptionVariation) \div (2 * (MaxEruptionDraw + 1))

NextEruptionTime(k) ==
    eruptionInterval
      + ((2 * k - (MaxEruptionDraw + 1)) * eruptionVariation) \div (2 * (MaxEruptionDraw + 1))

\* updatePlasmaEruptions, lines 619-626: the loop, from index i down to 1
RECURSIVE PlasmaLoop(_, _, _)
PlasmaLoop(st, i, dt) ==
    IF i = 0 THEN st
    ELSE LET f == PlasmaFountainUpdate(st.fountains[i], dt)
         IN  PlasmaLoop(IF StillActive(f)
                          THEN [st EXCEPT !.fountains[i] = f]
                          ELSE [fountains |-> Splice(st.fountains, i),
                                log       |-> Destroy(st.log, f.id)],
                        i - 1, dt)

\* updatePlasmaEruptions: kNext is the threshold draw of this call, kLife the
\* lifetime draw of the fountain it may create; clock is the time of the call
updatePlasmaEruptions(st, dt, kNext, kLife, clock) ==
    LET looped == PlasmaLoop([fountains |-> st.fountains, log |-> st.log],
                             Len(st.fountains), dt)
        timer  == st.timer + dt
    IN  IF timer >= NextEruptionTime(kNext)
          THEN LET made == createPlasmaEruption(looped, kLife, clock)
               IN  [fountains |-> made.fountains, log |-> made.log, timer |-> 0]
          ELSE [fountains |-> looped.fountains, log |-> looped.log, timer |-> timer]

----------------------------------------------------------------------------
(* The fog of src/js/fog.js (class SolarisFog), as far as its density is   *)
(* concerned: colours, range and sun data are left out.  Densities are in  *)
(* thousandths, densityPulseSpeed in tenths of a radian per second, time   *)
(* in whole seconds.                                                       *)

MaxFogTime == 12   \* fog.update() is called while fog.time stays <= MaxFogTime

\* static presets, lines 213-264: the keys that bear on the density
PresetNames == {"mysterious", "clear", "heavy", "ethereal", "none"}

Preset(name) ==
    CASE name = "mysterious" ->
           [type |-> "exponential", density |-> 120, animateDensity |-> TRUE]
      [] name = "clear" ->
           [type |-> "exponential", density |-> 40, animateDensity |-> FALSE]
      [] name = "heavy" ->
           [type |-> "exponential", density |-> 200, animateDensity |-> TRUE,
            densityPulseSpeed |-> 1]
      [] name = "ethereal" ->
           [type |-> "linear"]
      [] name = "none" ->
           [enabled |-> FALSE]

\* Object.assign(target, source)
ObjectAssign(target, source) ==
    [k \in DOMAIN target \cup DOMAIN source |->
        IF k \in DOMAIN source THEN source[k] ELSE target[k]]

\* new THREE.FogExp2(color, density), new THREE.Fog(color, near, far)
FogExp2(density) == [kind |-> "FogExp2", density |-> density]
LinearFog        == [kind |-> "Fog"]

\* init()
FogInit(fg) ==
    [fg EXCEPT !.object   = IF fg.config.type = "exponential"
                              THEN FogExp2(fg.config.density) ELSE LinearFog,
               !.attached = IF fg.isEnabled THEN TRUE ELSE @]

\* constructor, called without options (main.js line 126)
SolarisFog ==
    FogInit([config    |-> [type |-> "exponential", density |-> 80,
                            animateDensity |-> TRUE, densityPulseSpeed |-> 3,
                            baseDensity |-> 80],
             isEnabled |-> TRUE,
             time      |-> 0,
             object    |-> LinearFog,
             attached  |-> FALSE,
             lastCall  |-> [op |-> "constructor", name |-> ""],
             updated   |-> FALSE])

\* update(), line 141: Math.sin(time * densityPulseSpeed) * 0.015
DensityPulse(time, speed) == (Sin(time * speed * 100) * 15) \div EScale

\* update(deltaTime)
FogUpdate(fg, dt) ==
    IF ~fg.isEnabled THEN fg
    ELSE LET t == fg.time + dt
         IN  [fg EXCEPT !.time    = t,
                        !.updated = TRUE,
                        !.object  =
                            IF fg.config.animateDensity /\ fg.config.type = "exponential"
                              THEN [@ EXCEPT !.density =
                                       fg.config.baseDensity
                                         + DensityPulse(t, fg.config.densityPulseSpeed)]
                              ELSE @]

\* setEnabled(enabled)
setEnabled(fg, enabled) == [fg EXCEPT !.isEnabled = enabled, !.attached = enabled]

\* setDensity(density)
setDensity(fg, density) ==
    [fg EXCEPT !.config.density = density,
               !.config.baseDensity = density,
               !.object = IF fg.config.type = "exponential"
                            THEN [@ EXCEPT !.density = density] ELSE @,
               !.lastCall = [op |-> "setDensity", name |-> ""],
               !.updated  = FALSE]

\* setType(type)
setType(fg, type) ==
    FogInit([fg EXCEPT !.config.type = type,
                       !.lastCall = [op |-> "setType", name |-> ""],
                       !.updated  = FALSE])

\* applyPreset(presetName)
applyPreset(fg, presetName) ==
    IF presetName \notin PresetNames THEN fg
    ELSE LET preset   == Preset(presetName)
             assigned == [fg EXCEPT !.config = ObjectAssign(fg.config, preset),
                                    !.lastCall = [op |-> "applyPreset", name |-> presetName],
                                    !.updated  = FALSE]
         IN  IF "enabled" \in DOMAIN preset /\ preset.enabled = FALSE
               THEN setEnabled(assigned, FALSE)
               ELSE FogInit(setEnabled(assigned, TRUE))

\* main.js at load: no fountain yet, the fog constructed without options
MainIdle ==
    /\ plasmaFountains = <<>>
    /\ timeSinceLastEruption = 0
    /\ plasmaLog = <<>>
    /\ plasmaClock = 0
    /\ fog = SolarisFog

ProbeIdle ==
    /\ selTypes = <<>> /\ selRandom = <<0, 1>> /\ selResult = Thrown("none")
    /\ curveAge = 0 /\ curveLifespan = 0 /\ curveValue = 0
    /\ poseIn = NoPoseIn /\ poseOut = NoPoseOut

\* constructor, lines 4-13
Init ==
    /\ \E draws \in [1..maxFormations -> InitialDraws] :
          LET st == CreateInitial(EmptyState, 1, draws)
          IN  /\ formations = st.formations
              /\ scene = st.scene
              /\ ledger = st.ledger
    /\ spawnTimer = 0
    /\ lastTick = NoTick
    /\ now = 0
    /\ teardown = "none"
    /\ ProbeIdle
    /\ MainIdle

\* mutant of Update: the spawn test comes first, on the population as the
\* call found it, and the loop then advances the new formation too
UpdateSpawnFirst(dt, kType, kLife) ==
    LET timer == spawnTimer + dt
        st0   == [formations |-> formations, scene |-> scene, ledger |-> ledger, seen |-> <<>>,
                  clock |-> now + dt]
        due   == SpawnDue(timer, Len(formations))
    IN  \E st1 \in {IF due THEN spawnNewFormation(st0, kType, kLife) ELSE st0} :
        \E st2 \in {UpdateLoop(st1, Len(st1.formations), dt)} :
            /\ formations' = st2.formations
            /\ scene' = st2.scene
            /\ ledger' = st2.ledger
            /\ spawnTimer' = SpawnTimerAfter(timer, Len(formations))
            /\ lastTick' = [called |-> TRUE, dt |-> dt, seen |-> st2.seen, timer |-> timer,
                            population |-> Len(formations),
                            spawned |-> IF due THEN Len(st1.ledger) ELSE 0,
                            failed |-> FALSE, outcome |-> "returned"]
            /\ now' = now + dt

\* update(deltaTime), lines 492-560.  kType and kLife are the draws a spawn
\* consumes.
Update(dt, kType, kLife) ==
    LET timer == spawnTimer + dt
        st0   == [formations |-> formations, scene |-> scene, ledger |-> ledger, seen |-> <<>>,
                  clock |-> now + dt]
    IN  \E st1 \in {UpdateLoop(st0, Len(formations), dt)} :
        \E st2 \in {IF SpawnDue(timer, Len(st1.formations))
                     THEN spawnNewFormation(st1, kType, kLife) ELSE st1} :
            /\ formations' = st2.formations
            /\ scene' = st2.scene
            /\ ledger' = st2.ledger
            /\ spawnTimer' = SpawnTimerAfter(timer, Len(st1.formations))
            /\ lastTick' = [called |-> TRUE, dt |-> dt, seen |-> st1.seen, timer |-> timer,
                            population |-> Len(st1.formations),
                            spawned |-> IF SpawnDue(timer, Len(st1.formations))
                                        THEN Len(st2.ledger) ELSE 0,
                            failed |-> FALSE, outcome |-> "returned"]
            /\ now' = now + dt

\* does update(dt) reach spawnNewFormation?
Spawns(dt) ==
    LET st0 == [formations |-> formations, scene |-> scene, ledger |-> ledger, seen |-> <<>>,
                clock |-> now + dt]
    IN  SpawnDue(spawnTimer + dt, Len(UpdateLoop(st0, Len(formations), dt).formations))

\* a call of update() that spawns: the draws are consumed
TickSpawn ==
    \E dt \in 0..MaxDt :
        /\ now + dt <= MaxTime
        /\ Spawns(dt)
        /\ \E kType \in TypeDraws, kLife \in LifespanDraws : Update(dt, kType, kLife)
        /\ UNCHANGED <<mainVars, selVars, curveVars, poseVars, teardown>>

\* a call of update() that does not spawn: no draw is made
TickQuiet ==
    \E dt \in 0..MaxDt :
        /\ now + dt <= MaxTime
        /\ ~Spawns(dt)
        /\ Update(dt, 0, 0)
        /\ UNCHANGED <<mainVars, selVars, curveVars, poseVars, teardown>>

Tick == TickSpawn \/ TickQuiet

Next == Tick

Spec == Init /\ [][Next]_vars

----------------------------------------------------------------------------
(* Properties of the engine *)

LiveIds == {formations[i].id : i \in 1..Len(formations)}

Ids == 1..Len(ledger)

SeenIn(tick) == {tick.seen[k] : k \in 1..Len(tick.seen)}

\* the removal condition of line 546, evaluated on a logged formation
PastEndOfLife(c) == c.emergenceProgress * 100 <= EScale /\ 5 * c.age > 4 * c.lifespan

RECURSIVE SumAdds(_)
SumAdds(l) == IF l = <<>> THEN 0 ELSE Head(l).adds + SumAdds(Tail(l))

RECURSIVE SumRemoves(_)
SumRemoves(l) == IF l = <<>> THEN 0 ELSE Head(l).removes + SumRemoves(Tail(l))

\* C1: after construction and after every update() the population holds at
\* most maxFormations formations; an update() whose timer is due while the
\* population is at capacity adds no formation.
C1_BoundedPopulation ==
    /\ Len(formations) <= maxFormations
    /\ (lastTick.called /\ lastTick.timer > spawnInterval
                        /\ lastTick.population = maxFormations)
          => (lastTick.spawned = 0 /\ Len(formations) = maxFormations)

C1_Witness ==
    /\ lastTick.called
    /\ lastTick.timer > spawnInterval
    /\ lastTick.population = maxFormations
    /\ Len(formations) = maxFormations

\* C2: the drawables attached to the scene are exactly the drawables of the
\* live population, and scene.add calls minus scene.remove calls equals the
\* population size.
C2_SceneLockstep ==
    /\ scene = LiveIds
    /\ Cardinality(scene) = Len(formations)
    /\ SumAdds(ledger) - SumRemoves(ledger) = Len(formations)

C2_Witness ==
    /\ lastTick.spawned # 0
    /\ \E c \in SeenIn(lastTick) : c.id \notin LiveIds
    /\ Len(formations) > 0

\* C3: a drawable receives scene.remove at most once; it has received it
\* exactly when its formation is no longer in the population; the call comes
\* in the update() that takes the formation out of the population, and in
\* that update() the formation satisfied emergenceProgress <= 0.01 and
\* age > 0.8 * lifespan.
C3_RemovedOnce ==
    \A id \in Ids :
        /\ ledger[id].removes \in {0, 1}
        /\ ledger[id].removes = 1 <=> id \notin LiveIds

C3_RemoveStep ==
    \A id \in Ids :
        /\ (id \in LiveIds /\ id \notin LiveIds') <=> (ledger'[id].removes # ledger[id].removes)
        /\ (ledger'[id].removes # ledger[id].removes) =>
              /\ ledger'[id].removes = ledger[id].removes + 1
              /\ \E c \in SeenIn(lastTick') : c.id = id /\ PastEndOfLife(c)

C3_ExactlyOneRemove == [](C3_RemovedOnce) /\ [][C3_RemoveStep]_vars

C3_Witness ==
    \E id \in Ids : ledger[id].removes = 1 /\ id \notin LiveIds /\ id \notin scene

\* C4: once a formation has been disposed, each geometry of its drawable has
\* received exactly one dispose() call and so has its material.
C4_ReleasedOnce ==
    \A id \in Ids :
        ledger[id].removes > 0 => (ledger[id].geometry = {1} /\ ledger[id].material = 1)

\* C5: every emergenceProgress an update() computes, and every value it
\* writes to uEmergence, lies in [0, 1].
C5_EmergenceRange ==
    \A c \in SeenIn(lastTick) :
        /\ 0 <= c.emergenceProgress /\ c.emergenceProgress <= EScale
        /\ 0 <= c.uEmergence /\ c.uEmergence <= EScale

\* C6: a formation leaves the population in an update() only if, after that
\* update's advance, emergenceProgress <= 0.01 and age > 0.8 * lifespan; a
\* formation with emergenceProgress <= 0.01 that is not past 0.8 * lifespan
\* stays.
C6_RemovalNeedsBoth ==
    \A c \in SeenIn(lastTick) :
        /\ c.id \notin LiveIds => PastEndOfLife(c)
        /\ (c.emergenceProgress * 100 <= EScale /\ 5 * c.age <= 4 * c.lifespan)
              => c.id \in LiveIds

C6_Witness ==
    /\ \E id \in Ids : ledger[id].removes = 1
    /\ \E c \in SeenIn(lastTick) : c.id \in LiveIds /\ 5 * c.age > 4 * c.lifespan

----------------------------------------------------------------------------
(* selectWeightedFormation on its own: the catalog and the draw are chosen *)
(* by Init, SelectCall applies the function.                               *)

EngineIdle ==
    /\ formations = <<>> /\ scene = {} /\ spawnTimer = 0
    /\ ledger = <<>> /\ lastTick = NoTick /\ now = 0 /\ teardown = "none"

Catalogs ==
    UNION {[1..n -> 0..MaxWeight] : n \in 0..MaxCatalogLen} \cup {Weights(FormationTypes)}

InitSelect ==
    /\ EngineIdle
    /\ MainIdle
    /\ curveAge = 0 /\ curveLifespan = 0 /\ curveValue = 0
    /\ poseIn = NoPoseIn /\ poseOut = NoPoseOut
    /\ selTypes \in Catalogs
    /\ selRandom \in {<<k, MaxSelectDraw + 1>> : k \in 0..MaxSelectDraw}
    /\ selResult = Thrown("none")

SelectCall ==
    /\ selResult = Thrown("none")
    /\ selResult' = selectWeightedFormation(selTypes, selRandom[1], selRandom[2])
    /\ UNCHANGED <<mainVars, selTypes, selRandom, engineVars, curveVars, poseVars>>

NextSelect == SelectCall

SpecSelect == InitSelect /\ [][NextSelect]_vars

\* sum of the first i weights
RECURSIVE PrefixWeight(_, _)
PrefixWeight(ws, i) == IF i = 0 THEN 0 ELSE ws[i] + PrefixWeight(ws, i - 1)

PositiveWeights(ws) == ws # <<>> /\ \A i \in 1..Len(ws) : ws[i] > 0

\* C9: for a non-empty catalog with positive weights and the draw
\* r = (k/n) * totalWeight, the entry returned is the one whose interval
\* (w_1+..+w_(i-1), w_1+..+w_i] holds r (r = 0 goes to the first entry), an
\* interval of length w_i; and of the n equidistant draws k/n the share mapped
\* to entry i differs from w_i / totalWeight by at most 1/n.
C9_WeightedSelection ==
    (selResult # Thrown("none") /\ PositiveWeights(selTypes)) =>
        LET k     == selRandom[1]
            n     == selRandom[2]
            total == PrefixWeight(selTypes, Len(selTypes))
            i     == selResult.index
            Hits(j) == Cardinality({d \in 0..(n - 1) : selectWeightedFormation(selTypes, d, n) = Returned(j)})
        IN  /\ selResult.outcome = "returned"
            /\ i \in 1..Len(selTypes)
            /\ k * total <= PrefixWeight(selTypes, i) * n
            /\ (i > 1 => k * total > PrefixWeight(selTypes, i - 1) * n)
            /\ \A j \in 1..Len(selTypes) :
                  /\ Hits(j) * total - selTypes[j] * n <= total
                  /\ selTypes[j] * n - Hits(j) * total <= total

\* the shipped weights [3,2,2,1,1], a draw on the boundary of the second entry
C9_Witness ==
    /\ selTypes = <<3, 2, 2, 1, 1>>
    /\ selRandom[1] * 9 = 5 * selRandom[2]
    /\ selResult = Returned(2)

\* C10: on an empty catalog the call throws; on a non-empty catalog it
\* returns one entry of the catalog for every draw.
C10_SelectTotal ==
    selResult # Thrown("none") =>
        IF selTypes = <<>>
        THEN selResult = Thrown("TypeError")
        ELSE selResult.outcome = "returned" /\ selResult.index \in 1..Len(selTypes)

C10_Witness == selTypes = <<>> /\ selResult = Thrown("TypeError")

----------------------------------------------------------------------------
(* The lifecycle curve on its own: one formation of fixed lifespan whose   *)
(* age advances, in quarter seconds.                                       *)

CurveLifespans == {4 * Lifespan(k) : k \in 0..5}

InitCurve ==
    /\ EngineIdle
    /\ MainIdle
    /\ selTypes = <<>> /\ selRandom = <<0, 1>> /\ selResult = Thrown("none")
    /\ poseIn = NoPoseIn /\ poseOut = NoPoseOut
    /\ curveLifespan \in CurveLifespans
    /\ curveAge = 0
    /\ curveValue = EmergenceProgress(0, curveLifespan)

CurveAdvance ==
    \E dt \in 0..MaxDt :
        /\ curveAge + dt <= MaxCurveAge
        /\ curveAge' = curveAge + dt
        /\ curveValue' = EmergenceProgress(curveAge', curveLifespan)
        /\ UNCHANGED <<mainVars, curveLifespan, engineVars, selVars, poseVars>>

NextCurve == CurveAdvance

SpecCurve == InitCurve /\ [][NextCurve]_vars

\* C8: with the lifespan fixed, emergenceProgress does not decrease with age
\* while age/lifespan < 0.4 and does not increase with age while
\* age/lifespan > 0.8.
C8_Step ==
    (curveLifespan' = curveLifespan /\ curveAge' >= curveAge) =>
        /\ (5 * curveAge' < 2 * curveLifespan) => curveValue' >= curveValue
        /\ (5 * curveAge > 4 * curveLifespan) => curveValue' <= curveValue

C8_MonotonicPhases == [][C8_Step]_vars

C8_Witness ==
    /\ 5 * curveAge > 4 * curveLifespan
    /\ curveValue < EScale
    /\ curveValue > 0

\* C15: whenever 0.4 <= age/lifespan <= 0.8, both bounds included, the
\* emergenceProgress computed is exactly 1.0.
C15_PlateauIsOne ==
    (2 * curveLifespan <= 5 * curveAge /\ 5 * curveAge <= 4 * curveLifespan)
        => curveValue = EScale

\* both ends of the plateau are probed: the witness is the upper end, reached
\* by advancing through the lower end
C15_Witness ==
    /\ curveLifespan = 4 * Lifespan(0)
    /\ 5 * curveAge = 4 * curveLifespan
    /\ curveValue = EScale

----------------------------------------------------------------------------
(* Further properties of the engine *)

\* C19: every update() advances the uTime uniform of every live formation by
\* deltaTime once, so the uniform equals the formation's age, whatever the
\* number of meshes of its drawable and although they share one material.
C19_TimeUniformIsAge ==
    \A i \in 1..Len(formations) : formations[i].uTime = formations[i].age

\* C20: in every update() each formation of the population at the start of
\* the call is advanced exactly once (its age grows by deltaTime) and tested
\* for removal exactly once, however many formations the call removes; every
\* formation that meets the end-of-life condition in the call is removed in it.
C20_Step ==
    LET seen == lastTick'.seen
        Entries(id) == {k \in 1..Len(seen) : seen[k].id = id}
    IN  /\ Len(seen) = Len(formations)
        /\ \A i \in 1..Len(formations) :
              /\ Cardinality(Entries(formations[i].id)) = 1
              /\ \A k \in Entries(formations[i].id) :
                    /\ seen[k].age = formations[i].age + lastTick'.dt
                    /\ seen[k].removed <=> PastEndOfLife(seen[k])
                    /\ PastEndOfLife(seen[k]) <=> formations[i].id \notin LiveIds'

C20_EachOnce == [][C20_Step]_vars

\* a call that removed two neighbours of the array and kept another formation
C20_Witness ==
    /\ Len(lastTick.seen) = maxFormations
    /\ \E k \in 1..(Len(lastTick.seen) - 1) :
          lastTick.seen[k].removed /\ lastTick.seen[k + 1].removed
    /\ \E c \in SeenIn(lastTick) : ~c.removed /\ c.id \in LiveIds

\* formations the loop of the last update() handled and kept
Survivors(tick) == {k \in 1..Len(tick.seen) : ~tick.seen[k].removed}

\* C16 as claimed: the spawn decision precedes the advance and the removals
\* of the same update(): a spawn happens only if the population the call
\* started with was below capacity, and the formation spawned is advanced by
\* that call's deltaTime (its age is deltaTime when the call returns).
C16_SpawnBeforeAdvance ==
    lastTick.spawned # 0 =>
        /\ Len(lastTick.seen) < maxFormations
        /\ \E i \in 1..Len(formations) :
              formations[i].id = lastTick.spawned /\ formations[i].age = lastTick.dt

\* C16 as amended: the advance and the removals precede the spawn decision of
\* the same update(): the capacity test uses the population left after that
\* call's removals, and the formation spawned is appended after the loop and
\* is not advanced in that call (its age is 0 when the call returns).
C16_SpawnAfterAdvance ==
    lastTick.called =>
        /\ lastTick.spawned # 0 <=>
              (lastTick.timer > spawnInterval
                  /\ Cardinality(Survivors(lastTick)) < maxFormations)
        /\ lastTick.spawned # 0 =>
              /\ Len(formations) = Cardinality(Survivors(lastTick)) + 1
              /\ formations[Len(formations)].id = lastTick.spawned
              /\ formations[Len(formations)].age = 0
              /\ formations[Len(formations)].emergenceProgress = 0
              /\ \A c \in SeenIn(lastTick) : c.id # lastTick.spawned
        /\ lastTick.spawned = 0 => Len(formations) = Cardinality(Survivors(lastTick))

\* the call started at capacity, removed a formation and spawned
C16_Witness ==
    /\ lastTick.spawned # 0
    /\ lastTick.dt > 0
    /\ Len(lastTick.seen) = maxFormations
    /\ formations[Len(formations)].age = 0

\* C17: an update() spawns at most one formation, and between two
\* consecutive spawns the summed deltaTime grows by more than spawnInterval,
\* also when the population was at capacity before and several formations
\* expired in one update().
C17_Spacing ==
    \A id \in (maxFormations + 2)..Len(ledger) :
        ledger[id].born - ledger[id - 1].born > spawnInterval

C17_OnePerTick == Len(ledger') <= Len(ledger) + 1

C17_SpawnSpacing == [](C17_Spacing) /\ [][C17_OnePerTick]_vars

\* two spawns, the first in an update() that removed several formations, so
\* that the population stayed below capacity until the second
C17_Witness ==
    /\ Len(ledger) = maxFormations + 2
    /\ Len(formations) < maxFormations
    /\ lastTick.spawned = maxFormations + 2
    /\ ledger[maxFormations + 2].born - ledger[maxFormations + 1].born = spawnInterval + 1

NoneRemoved(l) == \A id \in 1..Len(l) : l[id].removes = 0

\* C14 as claimed: from a fresh engine no formation is created before the
\* summed deltaTime exceeds spawnInterval, and once it has exceeded it (and is
\* still below twice the interval) exactly one new formation exists, whose
\* age is the time elapsed since the timer crossed the interval.
C14_FirstSpawnAtInterval ==
    /\ now <= spawnInterval => Len(ledger) = maxFormations
    /\ (now > spawnInterval /\ now < 2 * spawnInterval) =>
          /\ Len(ledger) = maxFormations + 1
          /\ \E i \in 1..Len(formations) :
                /\ formations[i].id = maxFormations + 1
                /\ formations[i].age = now - ledger[maxFormations + 1].born

\* C14 as amended: the constructor fills the population to capacity, so no
\* formation is created before an update() removes one, however far the
\* summed deltaTime exceeds spawnInterval; the first update() that removes a
\* formation creates exactly one, whose age is 0 when that call returns and
\* afterwards equals the deltaTime summed since that call.
C14_Inv ==
    /\ now <= spawnInterval => Len(ledger) = maxFormations
    /\ NoneRemoved(ledger) => Len(ledger) = maxFormations
    /\ Len(ledger) > maxFormations => ledger[maxFormations + 1].born > spawnInterval
    /\ \A i \in 1..Len(formations) :
          formations[i].id > maxFormations =>
              formations[i].age = now - ledger[formations[i].id].born

C14_Step ==
    (NoneRemoved(ledger) /\ ~NoneRemoved(ledger')) =>
        /\ Len(ledger') = maxFormations + 1
        /\ lastTick'.spawned = maxFormations + 1
        /\ formations'[Len(formations')].id = maxFormations + 1
        /\ formations'[Len(formations')].age = 0

C14_FirstSpawnWhenSlotFrees == [](C14_Inv) /\ [][C14_Step]_vars

\* the first formation spawned by update(), some ticks after its creation
C14_Witness ==
    /\ Len(ledger) > maxFormations
    /\ \E i \in 1..Len(formations) :
          /\ formations[i].id = maxFormations + 1
          /\ formations[i].age > 0
          /\ formations[i].age = now - ledger[maxFormations + 1].born

----------------------------------------------------------------------------
(* Construction failure.  selectWeightedFormation calls type.fn(), which   *)
(* builds the whole drawable (group, geometries, material); an exception   *)
(* thrown by a THREE constructor in there leaves fn(), then                *)
(* selectWeightedFormation, spawnNewFormation and update(): none of them   *)
(* has a try/catch, and neither has animate() in main.js.                  *)

\* mutant of spawnNewFormationThrows: the formation is pushed before its
\* drawable is built
spawnNewFormationPartial(st, kType) ==
    LET sel == selectWeightedFormation(Weights(FormationTypes), kType, MaxTypeDraw + 1)
    IN  [st EXCEPT !.formations =
            Append(@, NewFormation(Len(st.ledger) + 1, FormationTypes[sel.index].fn, 0,
                                   HeldDraw, HeldDraw))]

\* spawnNewFormation(), lines 571-572, when type.fn() throws: the exception
\* leaves line 571 and addFormationToScene is not called
spawnNewFormationThrows(st, kType) == st

\* update(deltaTime) whose spawn fails: the loop has run, line 557 has reset
\* the timer, line 558 throws
UpdateThrows(dt, kType) ==
    LET timer == spawnTimer + dt
        st0   == [formations |-> formations, scene |-> scene, ledger |-> ledger, seen |-> <<>>,
                  clock |-> now + dt]
    IN  \E st1 \in {UpdateLoop(st0, Len(formations), dt)} :
        \E st2 \in {spawnNewFormationThrows(st1, kType)} :
            /\ formations' = st2.formations
            /\ scene' = st2.scene
            /\ ledger' = st2.ledger
            /\ spawnTimer' = 0
            /\ lastTick' = [called |-> TRUE, dt |-> dt, seen |-> st1.seen, timer |-> timer,
                            population |-> Len(st1.formations), spawned |-> 0,
                            failed |-> TRUE, outcome |-> "thrown"]
            /\ now' = now + dt

\* a call of update() that reaches spawnNewFormation, where construction fails
TickSpawnFails ==
    \E dt \in 0..MaxDt :
        /\ now + dt <= MaxTime
        /\ Spawns(dt)
        /\ \E kType \in TypeDraws : UpdateThrows(dt, kType)
        /\ UNCHANGED <<mainVars, selVars, curveVars, poseVars, teardown>>

\* animate() has requested the next frame before it calls update(), so the
\* frames go on after a call that threw
NextFaulty == Tick \/ TickSpawnFails

SpecFaulty == Init /\ [][NextFaulty]_vars

\* C12: an update() whose spawn attempt fails in the construction of the
\* drawable registers nothing: no drawable is recorded or added to the scene,
\* the population is exactly the formations the loop kept, each in the state
\* the loop left it in, and the scene holds exactly their drawables.
C12_Step ==
    lastTick'.failed =>
        LET seen == lastTick'.seen
        IN  /\ Len(ledger') = Len(ledger)
            /\ \A id \in Ids : ledger'[id].adds = ledger[id].adds
            /\ LiveIds' \subseteq LiveIds
            /\ scene' = LiveIds'
            /\ Len(formations') = Cardinality(Survivors(lastTick'))
            /\ \A i \in 1..Len(formations') :
                  \E k \in Survivors(lastTick') :
                      /\ seen[k].id = formations'[i].id
                      /\ seen[k].age = formations'[i].age
                      /\ seen[k].lifespan = formations'[i].lifespan
                      /\ seen[k].emergenceProgress = formations'[i].emergenceProgress

C12_FailedSpawnRegistersNothing == [][C12_Step]_vars

C12_Witness ==
    /\ lastTick.failed
    /\ lastTick.dt > 0
    /\ Len(formations) > 0
    /\ Len(formations) < maxFormations
    /\ Len(ledger) = maxFormations

\* C13: a construction failure is recovered inside update(): the call
\* returns normally and its caller sees no exception.
C13_FailureRecovered ==
    (lastTick.called /\ lastTick.failed) => lastTick.outcome = "returned"

----------------------------------------------------------------------------
(* Teardown.  The members of class SolarisFormations are the constructor,  *)
(* createInitialFormations, selectWeightedFormation, createFormationMaterial, *)
(* the five builders, addFormationToScene, update, spawnNewFormation and   *)
(* getFormationsNear.  There is no disposeAll: the property lookup yields  *)
(* undefined and the call throws a TypeError before anything is touched.   *)

\* formations.disposeAll()
DisposeAll ==
    /\ teardown = "none"
    /\ teardown' = "TypeError"
    /\ UNCHANGED <<mainVars, formations, scene, spawnTimer, ledger, lastTick, now,
                   selVars, curveVars, poseVars>>

NextTeardown == Tick \/ DisposeAll

SpecTeardown == Init /\ [][NextTeardown]_vars

\* C11: when a call of disposeAll() is over, no formation is left in the
\* population, no formation drawable is left in the scene, and every drawable
\* ever created has been removed from the scene once and had each of its
\* resources released once.
C11_TeardownEmpties ==
    teardown # "none" =>
        /\ teardown = "returned"
        /\ formations = <<>>
        /\ scene = {}
        /\ \A id \in Ids :
              /\ ledger[id].removes = 1
              /\ ledger[id].geometry = {1}
              /\ ledger[id].material = 1

----------------------------------------------------------------------------
(* Placement on its own: update(), lines 516-518 and 536-537, as a         *)
(* function of basePosition, maxHeight, emergenceProgress and phase.       *)
(*                                                                         *)
(* basePosition lies on the sphere of radius oceanRadius, and every vector *)
(* of the computation is a multiple of n = normalize(basePosition): a      *)
(* vector is represented by its coefficient along n, in EScale units per   *)
(* 1.0.  Angles are in EScale units per radian.  Vector3.multiplyScalar    *)
(* and Vector3.add change the vector they are called on and return it;     *)
(* clone() returns a new vector.                                           *)

\* Vector3.normalize() of c * n
Normalize(c) == IF c = 0 THEN 0 ELSE IF c > 0 THEN EScale ELSE 0 - EScale

\* lines 516-518 and 536-537.  `normal` is one object: line 518 scales it by
\* surfaceHeight in place, and line 537 clones it as line 518 left it.
Place(base, maxHeight, emergenceProgress, phase) ==
    LET surfaceHeight == FixMul(maxHeight, emergenceProgress)
        normal517     == Normalize(base)
        normal518     == FixMul(normal517, surfaceHeight)
        position518   == base + normal518
        breathe       == FixMul(FixMul(Sin(phase \div 2), 80), emergenceProgress)
        position537   == position518 + FixMul(normal518, breathe)
    IN  [called |-> TRUE, position |-> position537, normal |-> normal518]

PoseInputs ==
    [maxHeight : {MaxHeight(k) : k \in 0..MaxHeightDraw},
     emergenceProgress : {(k * EScale) \div MaxPoseStep : k \in 0..MaxPoseStep},
     phase : {(k * 4 * 3142) \div (MaxPhaseStep + 1) : k \in 0..MaxPhaseStep}]

InitPose ==
    /\ EngineIdle
    /\ MainIdle
    /\ selTypes = <<>> /\ selRandom = <<0, 1>> /\ selResult = Thrown("none")
    /\ curveAge = 0 /\ curveLifespan = 0 /\ curveValue = 0
    /\ poseIn \in PoseInputs
    /\ poseOut = NoPoseOut

PoseCall ==
    /\ ~poseOut.called
    /\ poseOut' = Place(oceanRadius * EScale, poseIn.maxHeight, poseIn.emergenceProgress,
                        poseIn.phase)
    /\ UNCHANGED <<mainVars, poseIn, engineVars, selVars, curveVars>>

NextPose == PoseCall

SpecPose == InitPose /\ [][NextPose]_vars

Abs(x) == IF x < 0 THEN 0 - x ELSE x

\* C18: after an update() the formation stands at
\* basePosition + n * (maxHeight * emergenceProgress + b), where n is the unit
\* vector normalize(basePosition) and b = 0.08 * sin(phase * 0.5) *
\* emergenceProgress: its displacement along n differs from
\* maxHeight * emergenceProgress by b, hence by at most
\* 0.08 * emergenceProgress, and it stands at basePosition when
\* emergenceProgress is 0.  (Two units of rounding are allowed.)
C18_BreathingAlongNormal ==
    poseOut.called =>
        LET displacement  == poseOut.position - oceanRadius * EScale
            surfaceHeight == FixMul(poseIn.maxHeight, poseIn.emergenceProgress)
            b             == FixMul(FixMul(Sin(poseIn.phase \div 2), 80), poseIn.emergenceProgress)
        IN  /\ Abs(displacement - (surfaceHeight + b)) <= 2
            /\ Abs(displacement - surfaceHeight) <= FixMul(80, poseIn.emergenceProgress) + 2
            /\ poseIn.emergenceProgress = 0 => displacement = 0

----------------------------------------------------------------------------
(* One formation on its own: any archetype, with its maxHeight and its     *)
(* archetype phase drawn freely, taken through the loop body of update()   *)
(* (lines 496-553) call after call until the loop removes it.              *)

BuilderNames == {FormationTypes[i].fn : i \in 1..Len(FormationTypes)}

InitBody ==
    /\ \E type \in BuilderNames, kLife \in LifespanDraws,
          kHeight \in {0, MaxHeightDraw}, kOsc \in 0..MaxOscDraw :
          LET st == Register(EmptyState, NewFormation(1, type, kLife, kHeight, kOsc))
          IN  /\ formations = st.formations
              /\ scene = st.scene
              /\ ledger = st.ledger
    /\ spawnTimer = 0
    /\ lastTick = NoTick
    /\ now = 0
    /\ teardown = "none"
    /\ ProbeIdle
    /\ MainIdle

BodyStep ==
    \E dt \in 0..MaxDt :
        /\ formations # <<>>
        /\ LET st0 == [formations |-> formations, scene |-> scene, ledger |-> ledger,
                       seen |-> <<>>, clock |-> now + dt]
           IN  \E st1 \in {UpdateOne(st0, 1, dt)} :
                   /\ formations' = st1.formations
                   /\ scene' = st1.scene
                   /\ ledger' = st1.ledger
                   /\ lastTick' = [NoTick EXCEPT !.called = TRUE, !.dt = dt, !.seen = st1.seen,
                                                 !.population = Len(st1.formations),
                                                 !.outcome = "returned"]
        /\ now' = now + dt
        /\ UNCHANGED <<mainVars, spawnTimer, teardown, selVars, curveVars, poseVars>>

NextBody == BodyStep

SpecBody == InitBody /\ [][NextBody]_vars

\* the factor of the archetype's animation for phase p and emergence e, per
\* component of the scale
TypeFactor(type, p, e) ==
    IF type = "mimoid"
    THEN SetScalar(EScale + FixMul(FixMul(Sin(p), EScale \div 10), e))
    ELSE IF type = "extensor"
    THEN [SetScalar(EScale) EXCEPT
            !.y = EScale + FixMul(FixMul(FixMul(Sin(p), EScale \div 2) + EScale \div 2,
                                         EScale \div 5), e)]
    ELSE SetScalar(EScale)

\* C21: the scale a call of update() gives a formation is the scale the
\* builder designed, (1, 1, 1), captured as originalScale before line 487
\* forces 0.01, times emergenceProgress^0.4 of this call, times a factor of
\* this call's emergenceProgress and archetype phase; the scale the previous
\* call left does not enter.
C21_Step ==
    formations' # <<>> =>
        LET f      == formations'[1]
            e04    == Pow04(f.emergenceProgress)
            factor == TypeFactor(f.formationType, f.typePhase, f.emergenceProgress)
            plain  == MultiplyScalar(f.originalScale, e04)
        IN  /\ f.originalScale = SetScalar(EScale)
            /\ ~f.scale.nan
            /\ f.scale.x = FixMul(plain.x, factor.x)
            /\ f.scale.y = FixMul(plain.y, factor.y)
            /\ f.scale.z = FixMul(plain.z, factor.z)

C21_ScaleFromBaseline == [][C21_Step]_vars

\* a mimoid in its plateau whose oscillation swells it beyond the designed
\* scale, several calls after its creation
C21_Witness ==
    /\ formations # <<>>
    /\ formations[1].formationType = "mimoid"
    /\ formations[1].age >= 3
    /\ formations[1].emergenceProgress = EScale
    /\ formations[1].scale.x > EScale

\* C22: update() leaves basePosition, lifespan, maxHeight, originalScale and
\* formationType of every live formation as addFormationToScene registered
\* them, and the length of basePosition is oceanRadius.
C22_FrameKept ==
    \A i \in 1..Len(formations) :
        LET f       == formations[i]
            created == ledger[f.id].created
        IN  /\ f.basePosition = created.basePosition
            /\ f.lifespan = created.lifespan
            /\ f.maxHeight = created.maxHeight
            /\ f.originalScale = created.originalScale
            /\ f.formationType = created.formationType
            /\ f.basePosition = oceanRadius * EScale

\* an extensor that several calls have aged, raised and rescaled
C22_Witness ==
    /\ formations # <<>>
    /\ lastTick.called
    /\ formations[1].formationType = "extensor"
    /\ formations[1].age >= 5
    /\ formations[1].emergenceProgress > 0
    /\ formations[1].scale # ledger[1].created.scale
    /\ formations[1].maxHeight = MaxHeight(MaxHeightDraw)

\* C23: a call of update() spawns exactly when spawnTimer + deltaTime is
\* strictly greater than spawnInterval and the population the loop left is
\* below capacity.  A spawn adds exactly one formation, with age 0,
\* emergenceProgress 0 and its scale forced to 0.01, appends it to the
\* population, adds its drawable to the scene, and sets spawnTimer to 0; a
\* call that does not spawn adds nothing and leaves the timer at its sum.
C23_Step ==
    LET timer == spawnTimer + lastTick'.dt
        due   == timer > spawnInterval /\ Cardinality(Survivors(lastTick')) < maxFormations
        id    == Len(ledger) + 1
    IN  IF due
        THEN /\ Len(ledger') = Len(ledger) + 1
             /\ Len(formations') = Cardinality(Survivors(lastTick')) + 1
             /\ LET f == formations'[Len(formations')]
                IN  /\ f.id = id
                    /\ f.age = 0
                    /\ f.emergenceProgress = 0
                    /\ f.scale = SetScalar(EScale \div 100)
             /\ id \in scene' /\ id \notin scene
             /\ ledger'[id].adds = 1
             /\ spawnTimer' = 0
        ELSE /\ Len(ledger') = Len(ledger)
             /\ Len(formations') = Cardinality(Survivors(lastTick'))
             /\ scene' \subseteq scene
             /\ spawnTimer' = timer

C23_SpawnOnce == [][C23_Step]_vars

\* a spawn by a timer that has just passed the interval
C23_Witness ==
    /\ lastTick.spawned # 0
    /\ lastTick.timer = spawnInterval + 1
    /\ spawnTimer = 0
    /\ formations[Len(formations)].id = lastTick.spawned
    /\ formations[Len(formations)].scale = SetScalar(EScale \div 100)
    /\ lastTick.spawned \in scene

\* C26: after every update() every formation still in the population has
\* age < lifespan and 0 <= emergenceProgress <= 1; a formation whose age has
\* reached or passed its lifespan does not survive the call.
C26_SurvivorsYoung ==
    /\ \A i \in 1..Len(formations) :
          /\ formations[i].age < formations[i].lifespan
          /\ 0 <= formations[i].emergenceProgress
          /\ formations[i].emergenceProgress <= EScale
    /\ \A c \in SeenIn(lastTick) : c.age >= c.lifespan => c.id \notin LiveIds

\* formations that reached their lifespan have been removed, and a
\* dissolving formation has survived the last call
C26_Witness ==
    /\ \E id \in Ids : ledger[id].removes = 1
    /\ \E i \in 1..Len(formations) :
          /\ 5 * formations[i].age > 4 * formations[i].lifespan
          /\ formations[i].emergenceProgress < EScale

\* C27: when a call of update() is over, spawnTimer > spawnInterval only if
\* the population is exactly at capacity.
C27_DueTimerMeansFull ==
    spawnTimer > spawnInterval => Len(formations) = maxFormations

\* the loop removed a formation while the timer was due, and the freed slot
\* was refilled in the same call
C27_Witness ==
    /\ lastTick.called
    /\ lastTick.timer > spawnInterval + lastTick.dt
    /\ \E c \in SeenIn(lastTick) : c.removed
    /\ lastTick.spawned # 0
    /\ spawnTimer <= spawnInterval

----------------------------------------------------------------------------
(* Progress.  animate() requests the next frame before it does anything    *)
(* else, so update() keeps being called, and THREE.Clock.getDelta() is     *)
(* positive between two frames: calls with deltaTime >= 1 keep arriving    *)
(* for as long as the modelled time span allows one.                       *)

\* A step of Next satisfies TimePasses exactly when it is a call of update()
\* with deltaTime > 0, and such a call is possible whenever now < MaxTime.
TimePasses ==
    /\ now < MaxTime
    /\ now' \in (now + 1)..Min(now + MaxDt, MaxTime)

SpecLive == Init /\ [][Next]_vars /\ WF_now(TimePasses)

\* the last call left the population below capacity without spawning, and
\* the modelled time span reaches beyond the moment the timer passes the
\* interval
C24_Waiting ==
    /\ Len(formations) < maxFormations
    /\ lastTick.spawned = 0
    /\ spawnTimer + (MaxTime - now) > spawnInterval

\* C24: whenever the population is below capacity and calls with
\* deltaTime > 0 keep arriving, a further formation is spawned, and that no
\* later than in the first call that takes the timer beyond spawnInterval.
C24_Step ==
    (Cardinality(Survivors(lastTick')) < maxFormations
        /\ spawnTimer + lastTick'.dt > spawnInterval)
            => Len(ledger') = Len(ledger) + 1

C24_SpawnComes ==
    /\ C24_Waiting ~> (lastTick.spawned # 0)
    /\ [][C24_Step]_vars

\* a spawn into a population that was below capacity before the call
C24_Witness ==
    /\ lastTick.spawned = maxFormations + 2
    /\ Len(lastTick.seen) < maxFormations
    /\ \A c \in SeenIn(lastTick) : ~c.removed
    /\ lastTick.dt > 0

\* the formation with this id is live and reaches its lifespan within the
\* modelled time span
C28_Ageing(id) ==
    \E i \in 1..Len(formations) :
        /\ formations[i].id = id
        /\ formations[i].age + (MaxTime - now) >= formations[i].lifespan

\* the drawable has left the population and the scene, and its geometries
\* and its material have been disposed
C28_Gone(id) ==
    /\ id \in Ids
    /\ id \notin LiveIds
    /\ id \notin scene
    /\ ledger[id].removes = 1
    /\ 0 \notin ledger[id].geometry
    /\ ledger[id].material > 0

\* C28: under calls of update() with deltaTime bounded away from 0, every
\* formation ever added is eventually removed from the population and from
\* the scene and has its geometries and material disposed.
C28_NoneLivesForever ==
    \A id \in 1..(maxFormations + 1) : C28_Ageing(id) ~> C28_Gone(id)

\* a formation spawned by update() is still live while the five the
\* constructor made are all gone
C28_Witness ==
    /\ \A id \in 1..maxFormations : C28_Gone(id)
    /\ maxFormations + 1 \in LiveIds
    /\ now < MaxTime

----------------------------------------------------------------------------
(* The plasma eruption system run on its own: animate() calls              *)
(* updatePlasmaEruptions(deltaTime, elapsedTime) once per frame.           *)

InitPlasma ==
    /\ EngineIdle
    /\ ProbeIdle
    /\ MainIdle

\* updatePlasmaEruptions(deltaTime, time)
PlasmaCall ==
    \E dt \in 0..MaxPlasmaDt, kNext \in 0..MaxEruptionDraw, kLife \in 0..MaxPlasmaLifeDraw :
        /\ plasmaClock + dt <= MaxPlasmaTime
        /\ \E st \in {updatePlasmaEruptions([fountains |-> plasmaFountains,
                                             log       |-> plasmaLog,
                                             timer     |-> timeSinceLastEruption],
                                            dt, kNext, kLife, plasmaClock + dt)} :
              /\ plasmaFountains' = st.fountains
              /\ plasmaLog' = st.log
              /\ timeSinceLastEruption' = st.timer
        /\ plasmaClock' = plasmaClock + dt
        /\ UNCHANGED <<engineVars, selVars, curveVars, poseVars, fog>>

NextPlasma == PlasmaCall

SpecPlasma == InitPlasma /\ [][NextPlasma]_vars

\* ids of the fountains in the list
ListedIds == {plasmaFountains[i].id : i \in 1..Len(plasmaFountains)}

\* C25: every fountain draws a lifetime in [3, 5) s; it is destroyed (one
\* scene.remove, one geometry.dispose, one material.dispose) exactly once,
\* in the first updatePlasmaEruptions call in which the deltaTime summed
\* since its creation reaches that lifetime, and leaves the list in that
\* same call; after every call every listed fountain has a remaining
\* lifetime above 0.
C25_DestroyedOnceOnTime ==
    /\ \A id \in 1..Len(plasmaLog) :
          LET e == plasmaLog[id]
              accumulated == plasmaClock - e.born
          IN  /\ e.lifetime >= 6 /\ e.lifetime < 10
              /\ e.removes = (IF accumulated >= e.lifetime THEN 1 ELSE 0)
              /\ e.geometry = e.removes
              /\ e.material = e.removes
              /\ (id \in ListedIds) <=> (e.removes = 0)
    /\ \A i \in 1..Len(plasmaFountains) :
          /\ plasmaFountains[i].lifetime > 0
          /\ plasmaFountains[i].lifetime =
                plasmaLog[plasmaFountains[i].id].lifetime
                  - (plasmaClock - plasmaLog[plasmaFountains[i].id].born)

\* a fountain destroyed by the call that took its remaining lifetime to
\* exactly 0, while a younger one stays listed
C25_Witness ==
    /\ \E id \in 1..Len(plasmaLog) :
          /\ plasmaLog[id].removes = 1
          /\ plasmaClock - plasmaLog[id].born = plasmaLog[id].lifetime
    /\ plasmaFountains # <<>>

\* C29: after every updatePlasmaEruptions call at most 2 fountains are
\* live: eruptions are at least 2.5 s of summed deltaTime apart and every
\* lifetime is below 5 s.
C29_AtMostTwoLive ==
    /\ Len(plasmaFountains) <= 2
    /\ \A id \in 1..Len(plasmaLog) :
          /\ plasmaLog[id].lifetime < 10
          /\ plasmaLog[id].born >= 5
          /\ id > 1 => plasmaLog[id].born - plasmaLog[id - 1].born >= 5

\* the third eruption has just happened and two fountains are live
C29_Witness ==
    /\ Len(plasmaLog) = 3
    /\ plasmaLog[3].born = plasmaClock
    /\ Len(plasmaFountains) = 2

----------------------------------------------------------------------------
(* The fog run on its own: animate() calls fog.update(deltaTime) once per  *)
(* frame, and the setters may be called between frames.                    *)

\* densities passed to setDensity, types passed to setType, names passed to
\* applyPreset (one of them is no preset)
DensityInputs == {50, 120}
TypeInputs    == {"exponential", "linear"}
NameInputs    == PresetNames \cup {"storm"}

InitFog ==
    /\ EngineIdle
    /\ ProbeIdle
    /\ MainIdle

\* fog.update(deltaTime)
FogTick ==
    \E dt \in 0..MaxDt :
        /\ fog.time + dt <= MaxFogTime
        /\ fog' = FogUpdate(fog, dt)
        /\ UNCHANGED <<engineVars, selVars, curveVars, poseVars, plasmaVars>>

\* fog.setDensity(density)
FogSetDensity ==
    \E density \in DensityInputs :
        /\ fog' = setDensity(fog, density)
        /\ UNCHANGED <<engineVars, selVars, curveVars, poseVars, plasmaVars>>

\* fog.setType(type)
FogSetType ==
    \E type \in TypeInputs :
        /\ fog' = setType(fog, type)
        /\ UNCHANGED <<engineVars, selVars, curveVars, poseVars, plasmaVars>>

\* fog.applyPreset(presetName)
FogApplyPreset ==
    \E presetName \in NameInputs :
        /\ fog' = applyPreset(fog, presetName)
        /\ UNCHANGED <<engineVars, selVars, curveVars, poseVars, plasmaVars>>

NextFog == FogTick \/ FogSetDensity \/ FogSetType \/ FogApplyPreset

SpecFog == InitFog /\ [][NextFog]_vars

\* the exponential presets that switch the density animation on
AnimatedPresets ==
    {name \in PresetNames :
        /\ {"type", "density", "animateDensity"} \subseteq DOMAIN Preset(name)
        /\ Preset(name).type = "exponential"
        /\ Preset(name).animateDensity}

\* C30: after applyPreset(name) with an exponential preset of density d that
\* switches the density animation on, the preset's density is the base of
\* the animation, as after setDensity(d), and every later update() leaves
\* fog.density within d +/- 0.015.
C30_PresetDensityIsBase ==
    (fog.lastCall.op = "applyPreset" /\ fog.lastCall.name \in AnimatedPresets
       /\ fog.updated)
        => /\ fog.config.baseDensity = Preset(fog.lastCall.name).density
           /\ Abs(fog.object.density - Preset(fog.lastCall.name).density) <= 15

====
